---- MODULE Spec2Model ----
(***************************************************************************)
(* mcpGraph-ux: the server-sent-events relay, the execution-controller     *)
(* registry, the tool-execution route, the control-command route and the   *)
(* stream route, together with the engine (mcpgraph) that drives the hooks *)
(* and the browser connections that open and cancel streams.               *)
(***************************************************************************)
EXTENDS Integers, Sequences, FiniteSets, TLC

\* ------------------------------------------------------------------ bounds
\* Execution ids a request can name (generateExecutionId yields fresh ids,
\* so each id names at most one execution attempt).
ExecIds == {"e1", "e2"}

\* The ids the browser client submits a run under; the other ids are ids no
\* run was ever started with.
RunIds == {"e1"}

\* Number of stream connections (GET /api/execution/stream) ever opened.
MaxSinks == 2

\* The configuration of the end-to-end scenario: entry A -> mcp B -> exit C.
Path == <<"A", "B", "C">>

NodeType(n) == IF n = "A" THEN "entry" ELSE IF n = "B" THEN "mcp" ELSE "exit"

\* The start requests tried: the breakpoint list and the startPaused flag of
\* the request body.
StartChoices ==
  { [bps |-> {},    startPaused |-> FALSE],
    [bps |-> {"B"}, startPaused |-> FALSE],
    [bps |-> {},    startPaused |-> TRUE] }

Actions == {"pause", "resume", "step", "stop"}

StoppedMessage == "Execution was stopped"
OtherMessage == "Tool call failed"

NoSink == 0

VARIABLES
  configSet,    \* process.env.MCPGRAPH_CONFIG_PATH is set
  streams,      \* activeStreams: execution id -> sink handle (NoSink = no entry)
  controllers,  \* activeControllers: the execution ids that have an entry
  sinks,        \* every ReadableStream controller created by the stream route
  eng,          \* per execution id: the engine's controller state and executor position
  log,          \* per sink: the frames of the sendExecutionEvent calls it accepted
  last,         \* the handler that ran last and what it answered
  client        \* the browser page: the state of ToolTester and of the page around it

vars == <<configSet, streams, controllers, sinks, eng, log, last, client>>

\* ------------------------------------------------------------------ frames
Frame(event, exec, nodeId, idx, status) ==
  [event |-> event, exec |-> exec, nodeId |-> nodeId, idx |-> idx, status |-> status,
   history |-> <<>>]

ConnectedFrame(id) == Frame("connected", id, "-", -1, "-")
NodeFrame(event, nodeId, idx) == Frame(event, "-", nodeId, idx, "-")
PlainFrame(event) == Frame(event, "-", "-", -1, "-")
StateUpdateFrame(status, nodeId) == Frame("stateUpdate", "-", nodeId, -1, status)

\* ------------------------------------------------------------------ relay
\* The relay state threaded through one handler: the streams map, the sinks,
\* the record of the calls made and the events the handler emitted so far.
Relay == [streams |-> streams, sinks |-> sinks, log |-> log, emitted |-> <<>>,
          threw |-> FALSE]

\* sendEvent: JSON.stringify(data) throws on a payload that cannot be
\* serialized; enqueue throws on a stream that is no longer readable.
WriteOk(sink, serializable) == serializable /\ sink.state = "open"

sendEvent(R, s, f) == [R EXCEPT !.sinks[s].frames = Append(@, f)]

\* Variant: a registration that leaves an earlier registration of the id in place.
registerExecutionStreamKeepFirst(R, id) ==
  LET s == Len(R.sinks) + 1
      R1 == [R EXCEPT !.sinks = Append(@, [exec |-> id, frames |-> <<>>, state |-> "open",
                                           early |-> FALSE]),
                      !.log = Append(@, <<>>),
                      !.streams[id] = IF @ = NoSink THEN s ELSE @]
  IN sendEvent(R1, s, ConnectedFrame(id))

registerExecutionStream(R, id) ==
  LET s == Len(R.sinks) + 1
      R1 == [R EXCEPT !.sinks = Append(@, [exec |-> id, frames |-> <<>>, state |-> "open",
                                           early |-> FALSE]),
                      !.log = Append(@, <<>>),
                      !.streams[id] = s]
  IN sendEvent(R1, s, ConnectedFrame(id))

unregisterExecutionStream(R, id) == [R EXCEPT !.streams[id] = NoSink]

\* Variant: a send that drops a frame equal to the one sent just before it.
sendExecutionEventDedup(R, id, f, serializable) ==
  LET s == R.streams[id] IN
  IF s # NoSink
    THEN IF WriteOk(R.sinks[s], serializable)
           THEN IF R.sinks[s].frames[Len(R.sinks[s].frames)] = f THEN R ELSE sendEvent(R, s, f)
           ELSE [R EXCEPT !.streams[id] = NoSink]
    ELSE R

\* Variant: a send that raises when no stream is registered for the id.
sendExecutionEventThrowsUnregistered(R, id, f, serializable) ==
  LET s == R.streams[id] IN
  IF s # NoSink
    THEN IF WriteOk(R.sinks[s], serializable)
           THEN sendEvent(R, s, f)
           ELSE [R EXCEPT !.streams[id] = NoSink]
    ELSE [R EXCEPT !.threw = TRUE]

\* Variant: a send that rethrows a write failure and keeps the registration.
sendExecutionEventRethrow(R, id, f, serializable) ==
  LET s == R.streams[id] IN
  IF s # NoSink
    THEN IF WriteOk(R.sinks[s], serializable)
           THEN sendEvent(R, s, f)
           ELSE [R EXCEPT !.threw = TRUE]
    ELSE R

sendExecutionEvent(R, id, f, serializable) ==
  LET s == R.streams[id] IN
  IF s # NoSink
    THEN IF WriteOk(R.sinks[s], serializable)
           THEN sendEvent(R, s, f)
           ELSE [R EXCEPT !.streams[id] = NoSink]
    ELSE R

\* Variant: a close that leaves the stream open and registered.
closeExecutionStreamKeepsOpen(R, id) == R

closeExecutionStream(R, id) ==
  LET s == R.streams[id] IN
  IF s # NoSink
    THEN [R EXCEPT !.sinks[s].state = "closed", !.streams[id] = NoSink]
    ELSE R

\* A call of sendExecutionEvent as its caller sees it: the call is recorded
\* under the sink that was registered and writable when it was made, if any.
Emit(R, id, f, serializable) ==
  LET s == R.streams[id]
      took == s # NoSink /\ WriteOk(R.sinks[s], serializable)
      R1 == sendExecutionEvent(R, id, f, serializable)
  IN IF took
       THEN [R1 EXCEPT !.log[s] = Append(@, f), !.emitted = Append(@, f.event)]
       ELSE [R1 EXCEPT !.emitted = Append(@, f.event)]

\* ------------------------------------------------------------------ controllers
registerController(C, id) == C \cup {id}
\* Variant: an unregistration that empties the registry.
unregisterControllerAll(C, id) == {}

unregisterController(C, id) == C \ {id}
\* Variant: a lookup that finds a controller for any id.
getControllerAlways(C, id) == TRUE

getController(C, id) == id \in C

\* ------------------------------------------------------------------ initial state
NoHandler == [route |-> "none", id |-> "-", action |-> "-", http |-> 0,
              emitted |-> <<>>, invoked |-> "none", body |-> "-",
              status |-> "-", message |-> "-", failed |-> FALSE, threw |-> FALSE,
              owner |-> "-"]

\* What `last` holds after a step in which no request handler answered: a
\* callback of the engine or a disconnect of the client.
BackgroundStep == [NoHandler EXCEPT !.route = "background"]

IdleEngine == [status |-> "none", pc |-> 1, phase |-> "idle", bps |-> {},
               startPaused |-> FALSE, stepping |-> FALSE, promise |-> "none",
               controlled |-> FALSE, seq |-> 0]

\* generateExecutionId: the ids of the runs the page submits, in order.
RunOrder == <<"e1", "e2">>

\* What handleSubmit's closure holds of the render it was called in.
NoCapture == [execId |-> "-", history |-> <<>>, bps |-> {}, startPaused |-> FALSE]

\* The page before the first run: the useState initial values.
IdleClient ==
  [status |-> "not_started", loading |-> FALSE, currentNodeId |-> "-",
   history |-> <<>>, execId |-> "-", bps |-> {}, runs |-> 0,
   open |-> [id \in ExecIds |-> FALSE], ref |-> "-",
   read |-> [s \in 1..MaxSinks |-> 0],
   post |-> [id \in ExecIds |-> "none"],
   cap |-> [id \in ExecIds |-> NoCapture],
   fetch |-> "-"]

Init ==
  /\ client = IdleClient
  /\ configSet \in BOOLEAN
  /\ streams = [id \in ExecIds |-> NoSink]
  /\ controllers = {}
  /\ sinks = <<>>
  /\ eng = [id \in ExecIds |-> IdleEngine]
  /\ log = <<>>
  /\ last = NoHandler

SetRelay(R) ==
  /\ streams' = R.streams
  /\ sinks' = R.sinks
  /\ log' = R.log

\* The event names a handler emitted, in call order.
Emitted(R) == R.emitted

\* ------------------------------------------------------------------ stream route
\* GET /api/execution/stream: ReadableStream.start registers the stream.
\* The browser's EventSource for an execution holds one connection at a time
\* and reconnects after the connection ended.
\* `early` notes a connection made before the start request of its id.
Connect(id) ==
  /\ LET R == registerExecutionStream(Relay, id)
     IN SetRelay([R EXCEPT !.sinks[Len(R.sinks)].early = (eng[id].phase = "idle")])
  /\ last' = [NoHandler EXCEPT !.route = "stream", !.http = 200]
  /\ UNCHANGED <<configSet, client, controllers, eng>>

StreamGet(id) ==
  /\ Len(sinks) < MaxSinks
  /\ \A s \in 1..Len(sinks) : sinks[s].exec = id => sinks[s].state # "open"
  /\ Connect(id)

\* The client disconnects: the stream is cancelled and ReadableStream.cancel
\* unregisters whatever is registered under the connection's execution id.
\* Nothing reads what a cancelled connection carried, so its frames are
\* forgotten.
cancel(R, s) ==
  LET R1 == [R EXCEPT !.sinks[s] = [@ EXCEPT !.frames = <<>>, !.state = "cancelled"],
                      !.log[s] = <<>>]
  IN unregisterExecutionStream(R1, R.sinks[s].exec)

StreamCancel(s) ==
  /\ s \in 1..Len(sinks)
  /\ sinks[s].state = "open"
  /\ SetRelay(cancel(Relay, s))
  /\ last' = BackgroundStep
  /\ UNCHANGED <<configSet, client, controllers, eng>>

\* ------------------------------------------------------------------ engine
\* The mcpgraph engine is an external collaborator; what follows is its
\* contract as the routes rely on it: a controller whose pause/resume/step/stop
\* change its status at once, and an executor that walks the nodes, pauses
\* before a node when asked to, and calls the hooks the execution route built.
Node(e) == Path[e.pc]

\* executionIndex of the node invocation the executor is at.
Index(e) == e.pc - 1

ShouldPause(e) == e.status = "paused" \/ Node(e) \in e.bps \/ e.stepping

\* The records of result.executionHistory: the node invocations completed.
EngineHistory(e) == [i \in 1..(e.pc - 1) |-> Path[i]]

\* hooks.onNodeStart
onNodeStart(R, id, e) ==
  Emit(R, id, NodeFrame("nodeStart", Node(e), Index(e)), TRUE)

\* hooks.onNodeComplete
onNodeComplete(R, id, e) ==
  Emit(R, id, NodeFrame("nodeComplete", Node(e), Index(e)), TRUE)

\* hooks.onNodeError
onNodeError(R, id, e) ==
  Emit(R, id, NodeFrame("nodeError", Node(e), Index(e)), TRUE)

\* Variant: a pause hook that sends the stateUpdate alone.
onPauseStateOnly(R, id, e) == Emit(R, id, StateUpdateFrame("paused", Node(e)), TRUE)

\* Variant: a pause hook that sends the stateUpdate before the pause event.
onPauseUpdateFirst(R, id, e) ==
  LET R1 == Emit(R, id, StateUpdateFrame("paused", Node(e)), TRUE)
  IN Emit(R1, id, NodeFrame("pause", Node(e), Index(e)), TRUE)

\* hooks.onPause: the pause event, then the stateUpdate.
onPause(R, id, e) ==
  LET R1 == Emit(R, id, NodeFrame("pause", Node(e), Index(e)), TRUE)
  IN Emit(R1, id, StateUpdateFrame("paused", Node(e)), TRUE)

\* hooks.onResume
onResume(R, id) == Emit(R, id, PlainFrame("resume"), TRUE)

\* The executor starts walking: status leaves not_started.
EngineBegin(id) ==
  /\ eng[id].phase = "init"
  /\ eng' = [eng EXCEPT ![id].phase = "boundary",
                        ![id].status = IF eng[id].startPaused THEN "paused" ELSE "running"]
  /\ last' = BackgroundStep
  /\ UNCHANGED <<configSet, client, streams, controllers, sinks, log>>

\* Before a node: the executor pauses (calling onPause) when it should.
EnginePause(id) ==
  LET e == eng[id] IN
  /\ e.phase = "boundary" /\ e.pc <= Len(Path)
  /\ e.status \in {"running", "paused"}
  /\ ShouldPause(e)
  /\ eng' = [eng EXCEPT ![id].phase = "waiting", ![id].status = "paused",
                        ![id].stepping = FALSE]
  /\ SetRelay(onPause(Relay, id, e))
  /\ last' = BackgroundStep
  /\ UNCHANGED <<configSet, client, controllers>>

\* After resume(): the executor wakes and calls onResume.
EngineResume(id) ==
  /\ eng[id].phase = "resumed"
  /\ eng[id].status \in {"running", "paused"}
  /\ eng' = [eng EXCEPT ![id].phase = "ready"]
  /\ SetRelay(onResume(Relay, id))
  /\ last' = BackgroundStep
  /\ UNCHANGED <<configSet, client, controllers>>

\* The executor starts the node it is at (calling onNodeStart).
EngineNodeStart(id) ==
  LET e == eng[id] IN
  /\ e.pc <= Len(Path)
  /\ e.status \in {"running", "paused"}
  /\ \/ e.phase = "ready"
     \/ e.phase = "boundary" /\ ~ShouldPause(e)
  /\ eng' = [eng EXCEPT ![id].phase = "in"]
  /\ SetRelay(onNodeStart(Relay, id, e))
  /\ last' = BackgroundStep
  /\ UNCHANGED <<configSet, client, controllers>>

\* The node returns (calling onNodeComplete); a node already in flight when
\* stop() was called may still return.
EngineNodeComplete(id) ==
  LET e == eng[id] IN
  /\ e.phase = "in"
  /\ eng' = [eng EXCEPT ![id].phase = "boundary", ![id].pc = e.pc + 1]
  /\ SetRelay(onNodeComplete(Relay, id, e))
  /\ last' = BackgroundStep
  /\ UNCHANGED <<configSet, client, controllers>>

\* The node throws (calling onNodeError) and the execute promise rejects.
EngineNodeFail(id) ==
  LET e == eng[id] IN
  /\ e.phase = "in" /\ NodeType(Node(e)) = "mcp"
  /\ e.status \in {"running", "paused"}
  /\ eng' = [eng EXCEPT ![id].phase = "settled", ![id].status = "error",
                        ![id].promise = OtherMessage]
  /\ SetRelay(onNodeError(Relay, id, e))
  /\ last' = BackgroundStep
  /\ UNCHANGED <<configSet, client, controllers>>

\* Past the last node: the execute promise resolves.
EngineFinish(id) ==
  LET e == eng[id] IN
  /\ e.phase = "boundary" /\ e.pc > Len(Path)
  /\ e.status \in {"running", "paused"}
  /\ eng' = [eng EXCEPT ![id].phase = "settled", ![id].status = "finished",
                        ![id].promise = "resolved"]
  /\ last' = BackgroundStep
  /\ UNCHANGED <<configSet, client, streams, controllers, sinks, log>>

\* After stop(): the execute promise rejects with the sentinel message.
EngineReject(id) ==
  /\ eng[id].status = "stopped"
  /\ eng[id].promise = "pending"
  /\ eng' = [eng EXCEPT ![id].phase = "settled", ![id].promise = StoppedMessage]
  /\ last' = BackgroundStep
  /\ UNCHANGED <<configSet, client, streams, controllers, sinks, log>>

Engine(id) ==
  \/ EngineBegin(id)
  \/ EnginePause(id)
  \/ EngineResume(id)
  \/ EngineNodeStart(id)
  \/ EngineNodeComplete(id)
  \/ EngineNodeFail(id)
  \/ EngineFinish(id)
  \/ EngineReject(id)

\* ------------------------------------------------------------------ execution route
\* POST /api/tools/[toolName] up to `await executionPromise`: getApi, the
\* hooks, api.executeTool, registerController.  An unknown tool makes
\* executeTool throw and the catch block runs at once.
\* Variant: a catch block that leaves the controller registered.
CatchBlockKeepsController(R, C, id, message) ==
  LET isStopped == message = StoppedMessage
      R1 == IF isStopped
              THEN Emit(R, id, PlainFrame("executionStopped"), TRUE)
              ELSE Emit(R, id, PlainFrame("executionError"), TRUE)
      R2 == closeExecutionStream(R1, id)
  IN [relay |-> R2, controllers |-> C,
      http |-> IF isStopped THEN 200 ELSE 500,
      body |-> IF isStopped THEN "stopped" ELSE "error"]

\* Variant: a catch block that treats every rejection as an error.
CatchBlockErrorOnly(R, C, id, message) ==
  LET R1 == Emit(R, id, PlainFrame("executionError"), TRUE)
      R2 == closeExecutionStream(R1, id)
  IN [relay |-> R2, controllers |-> unregisterController(C, id),
      http |-> 500, body |-> "error"]

CatchBlock(R, C, id, message) ==
  LET isStopped == message = StoppedMessage
      R1 == IF isStopped
              THEN Emit(R, id, PlainFrame("executionStopped"), TRUE)
              ELSE Emit(R, id, PlainFrame("executionError"), TRUE)
      R2 == closeExecutionStream(R1, id)
  IN [relay |-> R2,
      controllers |-> unregisterController(C, id),
      http |-> IF isStopped THEN 200 ELSE 500,
      body |-> IF isStopped THEN "stopped" ELSE "error"]

\* The number of executeTool calls that returned a controller so far.
Started == Cardinality({i \in ExecIds : eng[i].seq > 0})

ExecStart(id, toolKnown, req) ==
  /\ eng[id].phase = "idle"
  /\ IF ~configSet
       THEN \* getApi throws before executionId is read from the body
            /\ last' = [NoHandler EXCEPT !.route = "execute", !.id = id, !.action = "start",
                                         !.http = 500, !.body = "error"]
            /\ UNCHANGED <<streams, controllers, sinks, eng, log>>
       ELSE IF ~toolKnown
         THEN LET out == CatchBlock(Relay, controllers, id, OtherMessage) IN
              /\ SetRelay(out.relay)
              /\ controllers' = out.controllers
              /\ eng' = [eng EXCEPT ![id].phase = "settled", ![id].promise = "handled"]
              /\ last' = [NoHandler EXCEPT !.route = "execute", !.id = id, !.action = "catch",
                                           !.http = out.http, !.body = out.body,
                                           !.message = OtherMessage,
                                           !.emitted = Emitted(out.relay)]
         ELSE /\ controllers' = registerController(controllers, id)
              /\ eng' = [eng EXCEPT ![id] = [IdleEngine EXCEPT
                           !.status = "not_started", !.phase = "init", !.bps = req.bps,
                           !.startPaused = req.startPaused,
                           !.promise = "pending",
                           !.seq = Started + 1]]
              /\ last' = [NoHandler EXCEPT !.route = "execute", !.id = id, !.action = "start"]
              /\ UNCHANGED <<streams, sinks, log>>
  /\ UNCHANGED <<configSet, client, client>>

\* The completion path: executionComplete with the engine's history,
\* closeExecutionStream, unregisterController, then the JSON response.
\* Variant: a completion path that closes the stream before it sends.
CompletionBlockCloseFirst(R, C, id, e) ==
  LET frame == [PlainFrame("executionComplete") EXCEPT !.history = EngineHistory(e)]
      R1 == closeExecutionStream(R, id)
      R2 == Emit(R1, id, frame, TRUE)
  IN [relay |-> R2, controllers |-> unregisterController(C, id),
      http |-> 200, body |-> "result"]

CompletionBlock(R, C, id, e) ==
  LET frame == [PlainFrame("executionComplete") EXCEPT !.history = EngineHistory(e)]
      R1 == Emit(R, id, frame, TRUE)
      R2 == closeExecutionStream(R1, id)
  IN [relay |-> R2,
      controllers |-> unregisterController(C, id),
      http |-> 200,
      body |-> "result"]

\* The execute promise resolved.
ExecComplete(id) ==
  LET e == eng[id]
      out == CompletionBlock(Relay, controllers, id, e)
  IN
  /\ e.promise = "resolved"
  /\ SetRelay(out.relay)
  /\ controllers' = out.controllers
  /\ eng' = [eng EXCEPT ![id].promise = "handled"]
  /\ last' = [NoHandler EXCEPT !.route = "execute", !.id = id, !.action = "complete",
                               !.http = out.http, !.body = out.body,
                               !.emitted = Emitted(out.relay)]
  /\ UNCHANGED <<configSet, client, client>>

\* The execute promise rejected: the catch block.
ExecCatch(id) ==
  LET e == eng[id]
      out == CatchBlock(Relay, controllers, id, e.promise)
  IN
  /\ e.promise \in {StoppedMessage, OtherMessage}
  /\ SetRelay(out.relay)
  /\ controllers' = out.controllers
  /\ eng' = [eng EXCEPT ![id].promise = "handled"]
  /\ last' = [NoHandler EXCEPT !.route = "execute", !.id = id, !.action = "catch",
                               !.http = out.http, !.body = out.body,
                               !.message = e.promise,
                               !.emitted = Emitted(out.relay)]
  /\ UNCHANGED <<configSet, client, client>>

\* ------------------------------------------------------------------ control route
\* POST /api/execution/controller.
\* Variant: a status check that lets pause through while paused.
AllowedLax(action, status) ==
  CASE action = "pause"  -> status \in {"running", "paused"}
    [] action = "resume" -> status = "paused"
    [] action = "step"   -> status = "paused"
    [] action = "stop"   -> status \in {"running", "paused"}

Allowed(action, status) ==
  CASE action = "pause"  -> status = "running"
    [] action = "resume" -> status = "paused"
    [] action = "step"   -> status = "paused"
    [] action = "stop"   -> status \in {"running", "paused"}

\* The controller's methods (mcpgraph): each changes the status at once and
\* wakes an executor that waits at a pause.
Invoke(e, action) ==
  CASE action = "pause"  -> [e EXCEPT !.status = "paused", !.controlled = TRUE]
    [] action = "resume" -> [e EXCEPT !.status = "running", !.controlled = TRUE,
                                      !.phase = IF @ = "waiting" THEN "resumed" ELSE @]
    [] action = "step"   -> [e EXCEPT !.status = "running", !.stepping = TRUE,
                                      !.controlled = TRUE,
                                      !.phase = IF @ = "waiting" THEN "ready" ELSE @]
    [] action = "stop"   -> [e EXCEPT !.status = "stopped", !.controlled = TRUE]

\* Variant: a control route that runs a stop without the controller lookup
\* and without the status check.
ControlStopUnchecked(id, action) ==
  LET answer(http, body) == [NoHandler EXCEPT !.route = "control", !.id = id,
                                               !.action = action, !.http = http,
                                               !.body = body]
  IN
  /\ IF ~configSet
       THEN /\ last' = answer(500, "error")
            /\ UNCHANGED <<streams, controllers, sinks, eng, log>>
       ELSE IF action = "stop"
         THEN LET R1 == Emit(Relay, id, PlainFrame("executionStopped"), TRUE)
                  R2 == closeExecutionStream(R1, id)
              IN /\ eng' = [eng EXCEPT ![id] = Invoke(@, action)]
                 /\ controllers' = unregisterController(controllers, id)
                 /\ SetRelay(R2)
                 /\ last' = [answer(200, "stopped") EXCEPT !.invoked = action,
                                                           !.status = eng[id].status,
                                                           !.emitted = Emitted(R2)]
         ELSE IF ~getController(controllers, id)
           THEN /\ last' = answer(404, "error")
                /\ UNCHANGED <<streams, controllers, sinks, eng, log>>
           ELSE IF ~Allowed(action, eng[id].status)
             THEN /\ last' = [answer(400, "error") EXCEPT !.status = eng[id].status]
                  /\ UNCHANGED <<streams, controllers, sinks, eng, log>>
             ELSE /\ eng' = [eng EXCEPT ![id] = Invoke(@, action)]
                  /\ last' = [answer(200, "success") EXCEPT !.invoked = action,
                                                               !.status = eng[id].status]
                  /\ UNCHANGED <<streams, controllers, sinks, log>>
  /\ UNCHANGED <<configSet, client, client>>

\* Variant: a control route that sends a stateUpdate itself when it accepts
\* a pause, a resume or a step.
ControlNotifies(id, action) ==
  LET answer(http, body) == [NoHandler EXCEPT !.route = "control", !.id = id,
                                               !.action = action, !.http = http,
                                               !.body = body]
  IN
  /\ IF ~configSet
       THEN /\ last' = answer(500, "error")
            /\ UNCHANGED <<streams, controllers, sinks, eng, log>>
       ELSE IF ~getController(controllers, id)
         THEN /\ last' = answer(404, "error")
              /\ UNCHANGED <<streams, controllers, sinks, eng, log>>
         ELSE IF ~Allowed(action, eng[id].status)
           THEN /\ last' = [answer(400, "error") EXCEPT !.status = eng[id].status]
                /\ UNCHANGED <<streams, controllers, sinks, eng, log>>
           ELSE IF action = "stop"
             THEN LET R1 == Emit(Relay, id, PlainFrame("executionStopped"), TRUE)
                      R2 == closeExecutionStream(R1, id)
                  IN /\ eng' = [eng EXCEPT ![id] = Invoke(@, action)]
                     /\ controllers' = unregisterController(controllers, id)
                     /\ SetRelay(R2)
                     /\ last' = [answer(200, "stopped") EXCEPT !.invoked = action,
                                                               !.status = eng[id].status,
                                                               !.emitted = Emitted(R2)]
             ELSE LET R1 == Emit(Relay, id,
                                 StateUpdateFrame(Invoke(eng[id], action).status, "-"), TRUE)
                  IN /\ eng' = [eng EXCEPT ![id] = Invoke(@, action)]
                     /\ SetRelay(R1)
                     /\ last' = [answer(200, "success") EXCEPT !.invoked = action,
                                                               !.status = eng[id].status,
                                                               !.emitted = Emitted(R1)]
                     /\ UNCHANGED controllers
  /\ UNCHANGED <<configSet, client, client>>

Control(id, action) ==
  LET answer(http, body) == [NoHandler EXCEPT !.route = "control", !.id = id,
                                               !.action = action, !.http = http,
                                               !.body = body]
  IN
  /\ IF ~configSet
       THEN \* getApi throws; the route's catch answers 500
            /\ last' = answer(500, "error")
            /\ UNCHANGED <<streams, controllers, sinks, eng, log>>
       ELSE IF ~getController(controllers, id)
         THEN /\ last' = answer(404, "error")
              /\ UNCHANGED <<streams, controllers, sinks, eng, log>>
         ELSE IF ~Allowed(action, eng[id].status)
           THEN /\ last' = [answer(400, "error") EXCEPT !.status = eng[id].status]
                /\ UNCHANGED <<streams, controllers, sinks, eng, log>>
           ELSE IF action = "stop"
             THEN LET R1 == Emit(Relay, id, PlainFrame("executionStopped"), TRUE)
                      R2 == closeExecutionStream(R1, id)
                  IN /\ eng' = [eng EXCEPT ![id] = Invoke(@, action)]
                     /\ controllers' = unregisterController(controllers, id)
                     /\ SetRelay(R2)
                     /\ last' = [answer(200, "stopped") EXCEPT !.invoked = action,
                                                               !.status = eng[id].status,
                                                               !.emitted = Emitted(R2)]
             ELSE /\ eng' = [eng EXCEPT ![id] = Invoke(@, action)]
                  /\ last' = [answer(200, "success") EXCEPT !.invoked = action,
                                                               !.status = eng[id].status]
                  /\ UNCHANGED <<streams, controllers, sinks, log>>
  /\ UNCHANGED <<configSet, client, client>>

\* ------------------------------------------------------------------ relay alone
\* The relay and the controller registry driven call by call, as any caller
\* in the process may drive them: connections may overlap on one id and a
\* payload may fail to serialize.
MaxRelaySinks == 2
MaxRelayFrames == 2

\* The frames the connections hold beyond their connected frames.
RECURSIVE SentUpTo(_)
SentUpTo(n) == IF n = 0 THEN 0 ELSE SentUpTo(n - 1) + Len(log[n])

RelaySent == SentUpTo(Len(log))

RelayFrames == {NodeFrame("nodeStart", "A", 0), PlainFrame("executionStopped")}

RelayConnect(id) ==
  /\ Len(sinks) < MaxRelaySinks
  /\ Connect(id)

RelayCancel(s) == StreamCancel(s)

RelaySend(id, f, serializable) ==
  LET s == streams[id]
      R == Emit(Relay, id, f, serializable)
  IN
  /\ RelaySent < MaxRelayFrames
  /\ SetRelay(R)
  /\ last' = [NoHandler EXCEPT !.route = "send", !.id = id, !.emitted = Emitted(R),
                               !.failed = (s # NoSink /\ ~WriteOk(sinks[s], serializable)),
                               !.threw = R.threw]
  /\ UNCHANGED <<configSet, client, controllers, eng>>

RelayClose(id) ==
  /\ streams[id] # NoSink
  /\ SetRelay(closeExecutionStream(Relay, id))
  /\ last' = [NoHandler EXCEPT !.route = "close", !.id = id]
  /\ UNCHANGED <<configSet, client, controllers, eng>>

RelayController(id) ==
  /\ controllers' = IF getController(controllers, id)
                      THEN unregisterController(controllers, id)
                      ELSE registerController(controllers, id)
  /\ last' = [NoHandler EXCEPT !.route = "controller", !.id = id]
  /\ UNCHANGED <<configSet, client, streams, sinks, eng, log>>

NextRelay ==
  \/ \E id \in ExecIds : RelayConnect(id)
  \/ \E s \in 1..MaxRelaySinks : RelayCancel(s)
  \/ \E id \in ExecIds, f \in RelayFrames, serializable \in BOOLEAN :
       RelaySend(id, f, serializable)
  \/ \E id \in ExecIds : RelayClose(id)
  \/ \E id \in ExecIds : RelayController(id)

SpecRelay == Init /\ [][NextRelay]_vars

Next ==
  \/ \E id \in RunIds : StreamGet(id)
  \/ \E s \in 1..MaxSinks : StreamCancel(s)
  \/ \E id \in RunIds, toolKnown \in BOOLEAN, req \in StartChoices :
       ExecStart(id, toolKnown, req)
  \/ \E id \in RunIds : ExecComplete(id)
  \/ \E id \in RunIds : ExecCatch(id)
  \/ \E id \in ExecIds, action \in Actions : Control(id, action)
  \/ \E id \in RunIds : Engine(id)

Spec == Init /\ [][Next]_vars

\* ------------------------------------------------------------------ browser client
\* SSEExecutionStream.connect: the event types the client listens for.
ClientListens == {"connected", "nodeStart", "nodeComplete", "nodeError", "pause",
                  "resume", "executionComplete", "executionError", "stateUpdate"}

HasRecord(h, nodeId, idx) == \E i \in 1..Len(h) : h[i].nodeId = nodeId /\ h[i].idx = idx

\* ToolTester.handleSubmit, the stream event switch: what one event does to
\* the client's executionHistory.
HandleEvent(h, f) ==
  CASE f.event \in {"nodeStart", "nodeComplete"} ->
         IF HasRecord(h, f.nodeId, f.idx)
           THEN h
           ELSE Append(h, [nodeId |-> f.nodeId, idx |-> f.idx])
    [] f.event \in {"nodeError", "pause"} ->
         Append(h, [nodeId |-> f.nodeId, idx |-> f.idx])
    [] f.event = "executionComplete" ->
         [i \in 1..Len(f.history) |-> [nodeId |-> f.history[i], idx |-> i - 1]]
    [] OTHER -> h

RECURSIVE ClientFold(_, _)
ClientFold(h, fs) ==
  IF fs = <<>> THEN h ELSE ClientFold(HandleEvent(h, Head(fs)), Tail(fs))

\* The client's executionHistory after it handled the frames of a connection.
ClientHistory(frames) ==
  LET Listened(f) == f.event \in ClientListens
  IN ClientFold(<<>>, SelectSeq(frames, Listened))

\* ------------------------------------------------------------------ properties
SinkIds == 1..Len(sinks)

Count(frames, event) ==
  LET Is(f) == f.event = event IN Len(SelectSeq(frames, Is))

RECURSIVE SumStopped(_, _)
SumStopped(id, n) ==
  IF n = 0 THEN 0
  ELSE SumStopped(id, n - 1)
       + (IF sinks[n].exec = id THEN Count(sinks[n].frames, "executionStopped") ELSE 0)

\* The executionStopped frames delivered on the connections of an execution.
StoppedFrames(id) == SumStopped(id, Len(sinks))

\* The stop was accepted and the execution route has handled the rejection.
StopHandled(id) == eng[id].status = "stopped" /\ eng[id].promise = "handled"

\* C1: once a stop was accepted and the execution route has handled the
\* engine's 'Execution was stopped' rejection, the connections of that
\* execution that took an executionStopped frame took exactly one in all.
C1_ExactlyOneStopped ==
  \A id \in RunIds :
    (StopHandled(id) /\ StoppedFrames(id) # 0) => StoppedFrames(id) = 1

\* C2: right after the execution route handled a terminal outcome (complete,
\* error or stop) of an execution, neither registry holds the execution's id.
C2_NoResidualRegistration ==
  (last.route = "execute" /\ last.action \in {"complete", "catch"})
    => (streams[last.id] = NoSink /\ last.id \notin controllers)

C2_Witness ==
  /\ last.route = "execute" /\ last.action = "catch" /\ last.message = OtherMessage
  /\ eng[last.id].status = "error"
  /\ \E s \in SinkIds : sinks[s].exec = last.id /\ sinks[s].state = "closed"
                        /\ Count(sinks[s].frames, "executionError") = 1

\* C3: a connection that is not cancelled holds the connected frame carrying
\* its id followed by one frame per accepted sendExecutionEvent call, in call
\* order, each the frame of that call.
C3_FramesAreCallsInOrder ==
  \A s \in SinkIds :
    sinks[s].state # "cancelled"
      => sinks[s].frames = <<ConnectedFrame(sinks[s].exec)>> \o log[s]

C3_Witness ==
  \E s \in SinkIds :
    /\ Len(log[s]) = 2 /\ log[s][1] = log[s][2]
    /\ sinks[s].frames = <<ConnectedFrame(sinks[s].exec)>> \o log[s]

NeverRegistered(id) == eng[id].status = "none"

\* C4 as stated: a control command for an id that was never registered is
\* answered 404.
C4_AlwaysNotFound ==
  (last.route = "control" /\ NeverRegistered(last.id)) => last.http = 404

C4_Answer ==
  (last.route = "control" /\ NeverRegistered(last.id))
    => /\ last.http = (IF configSet THEN 404 ELSE 500)
       /\ last.invoked = "none"
       /\ last.emitted = <<>>
       /\ ~last.threw

C4_Frame ==
  (last'.route = "control" /\ NeverRegistered(last'.id))
    => UNCHANGED <<streams, controllers, sinks, eng>>

\* C4 (amended): a control command for an id that was never registered is
\* answered 404 when the configuration path is set and 500 when it is not; in
\* both cases no controller is invoked, no event is sent and the registries
\* stay as they were.
C4_NotFoundOrNoConfig == []C4_Answer /\ [][C4_Frame]_vars

C4_Witness ==
  /\ last.route = "control" /\ last.http = 404 /\ last.action = "stop"
  /\ NeverRegistered(last.id) /\ controllers # {}

FoundController == last.route = "control" /\ last.http \in {200, 400}

C5_Table ==
  FoundController =>
    \/ /\ last.http = 200 /\ last.invoked = last.action
       /\ (last.action = "pause" => last.status = "running")
       /\ (last.action \in {"resume", "step"} => last.status = "paused")
       /\ (last.action = "stop" => last.status \in {"running", "paused"})
    \/ /\ last.http = 400 /\ last.invoked = "none" /\ last.emitted = <<>>
       /\ (last.action = "pause" => last.status # "running")
       /\ (last.action \in {"resume", "step"} => last.status # "paused")
       /\ (last.action = "stop" => last.status \notin {"running", "paused"})

C5_Frame ==
  (last'.route = "control" /\ last'.http = 400)
    => UNCHANGED <<streams, controllers, sinks, eng>>

\* C5: with a controller registered, the control route invokes pause only in
\* status running, resume and step only in status paused, stop only in status
\* running or paused; in every other status it answers 400, invokes nothing,
\* sends nothing and leaves the registries as they were.
C5_DelegatesOnlyWhenAllowed == []C5_Table /\ [][C5_Frame]_vars

C5_Witness ==
  /\ last.route = "control" /\ last.http = 400
  /\ last.action = "pause" /\ last.status = "not_started"

\* C7: the catch block of the execution route answers the sentinel message
\* with executionStopped alone and a success response marked stopped, and any
\* other rejection with executionError alone and status 500.
C7_SentinelIsStop ==
  (last.route = "execute" /\ last.action = "catch")
    => IF last.message = StoppedMessage
         THEN last.emitted = <<"executionStopped">> /\ last.http = 200
              /\ last.body = "stopped"
         ELSE last.emitted = <<"executionError">> /\ last.http = 500

C7_Witness ==
  /\ last.route = "execute" /\ last.action = "catch"
  /\ last.message = StoppedMessage /\ last.http = 200

ExpectedFrames(id) ==
  << ConnectedFrame(id),
     NodeFrame("nodeStart", "A", 0), NodeFrame("nodeComplete", "A", 0),
     NodeFrame("nodeStart", "B", 1), NodeFrame("nodeComplete", "B", 1),
     NodeFrame("nodeStart", "C", 2), NodeFrame("nodeComplete", "C", 2),
     [PlainFrame("executionComplete") EXCEPT !.history = <<"A", "B", "C">>] >>

\* The scenario of C8 has run to its end on connection s.
EndToEndDone(s) ==
  LET e == eng[sinks[s].exec] IN
  /\ sinks[s].early /\ sinks[s].state = "closed"
  /\ e.bps = {} /\ ~e.startPaused /\ ~e.controlled
  /\ e.status = "finished" /\ e.promise = "handled"

\* C8: entry A -> mcp B -> exit C run with an execution id, a stream
\* connected before the start request, no breakpoints and no control command:
\* the connection carries connected, then nodeStart and nodeComplete of A, B
\* and C in turn, then executionComplete, and the client's history ends as
\* the three records A, B, C.
C8_EndToEnd ==
  \A s \in SinkIds :
    EndToEndDone(s)
      => /\ sinks[s].frames = ExpectedFrames(sinks[s].exec)
         /\ LET h == ClientHistory(sinks[s].frames)
            IN [i \in 1..Len(h) |-> h[i].nodeId] = <<"A", "B", "C">>

C8_Witness == \E s \in SinkIds : EndToEndDone(s) /\ Len(sinks[s].frames) = 8

\* The connection registered for its id is the one made last for that id.
C9_LastRegistrantWins ==
  \A s \in SinkIds :
    streams[sinks[s].exec] = s
      => \A s2 \in SinkIds : (s2 > s /\ sinks[s2].exec = sinks[s].exec)
                               => sinks[s2].state # "open"

\* A step hands a frame to no connection but the one registered for its id,
\* and an accepted send hands its frame to that one.
C9_OnlyRegisteredReceives ==
  /\ \A s \in SinkIds :
       (sinks'[s].frames # sinks[s].frames /\ sinks'[s].state # "cancelled")
         => streams[sinks[s].exec] = s
  /\ (last'.route = "send" /\ ~last'.failed /\ streams[last'.id] # NoSink)
       => Len(sinks'[streams[last'.id]].frames) = Len(sinks[streams[last'.id]].frames) + 1

\* C9: after a second registration for an id every event goes to the second
\* connection only; one connection at most receives the events of an id.
C9_SecondRegistrationTakesOver ==
  []C9_LastRegistrantWins /\ [][C9_OnlyRegisteredReceives]_vars

C9_Witness ==
  \E s1, s2 \in SinkIds :
    /\ s1 < s2 /\ sinks[s1].exec = sinks[s2].exec
    /\ sinks[s1].state = "open" /\ sinks[s2].state = "open"
    /\ streams[sinks[s2].exec] = s2
    /\ Len(sinks[s1].frames) = 1 /\ Len(sinks[s2].frames) = 3

C10_Step ==
  (last'.route = "send" /\ last'.failed)
    => /\ streams'[last'.id] = NoSink
       /\ ~last'.threw
       /\ sinks' = sinks /\ log' = log
       /\ controllers' = controllers
       /\ \A o \in ExecIds \ {last'.id} : streams'[o] = streams[o]

\* C10: a send whose write fails removes the stream registration of its id,
\* raises nothing, hands the frame to no connection, and leaves the controller
\* registry and the registrations of the other ids as they were.
C10_WriteFailureDropsRegistration == [][C10_Step]_vars

C10_Witness ==
  /\ last.route = "send" /\ last.failed /\ streams[last.id] = NoSink
  /\ last.id \in controllers
  /\ \E o \in ExecIds \ {last.id} : streams[o] # NoSink


\* ------------------------------------------------------------------ liveness
\* The engine is scheduled fairly: a step it can take is taken in the end.
SpecLive == Spec /\ \A id \in RunIds : WF_vars(Engine(id))

\* The engine has yet to come to a point before a node where it checks for a
\* pause: at a boundary that is the node it is at, otherwise the next one.
HasNodeAhead(e) ==
  IF e.phase = "boundary" THEN e.pc <= Len(Path) ELSE e.pc < Len(Path)

\* A pause command for id was just accepted with the stream registered.
PauseAccepted(id) ==
  /\ last.route = "control" /\ last.id = id /\ last.action = "pause" /\ last.http = 200
  /\ streams[id] # NoSink
  /\ HasNodeAhead(eng[id])

\* The engine waits before a node and the stream of id carries, as its last
\* frames, the pause frame of that node and the stateUpdate that follows it.
PauseDelivered(id) ==
  LET s == streams[id]
      e == eng[id]
  IN /\ e.phase = "waiting"
     /\ s # NoSink
     /\ Len(log[s]) >= 2
     /\ log[s][Len(log[s]) - 1] = NodeFrame("pause", Node(e), Index(e))
     /\ sinks[s].frames[Len(sinks[s].frames) - 1] = NodeFrame("pause", Node(e), Index(e))

\* The pause is no longer pending: the stream went away, or the execution
\* was resumed, stepped, stopped or failed.
PauseOff(id) == streams[id] = NoSink \/ eng[id].status # "paused"

\* C6: a pause accepted while the execution runs with a node still ahead and
\* the stream registered leads, under fair scheduling of the engine, to a
\* pause frame carrying the node the engine paused before on that stream,
\* unless the stream goes away or the pause is called off first.
C6_PauseLeadsToPauseFrame ==
  \A id \in RunIds : PauseAccepted(id) ~> (PauseDelivered(id) \/ PauseOff(id))

C6_Witness ==
  \E id \in RunIds :
    /\ PauseDelivered(id) /\ eng[id].controlled /\ eng[id].bps = {}
    /\ ~eng[id].startPaused /\ Node(eng[id]) = "C"


\* ------------------------------------------------------------------ two executions
\* Two executions in one process.  Each id has one connection.  The ids
\* of RunIds connect, disconnect, start, take control commands and end in any interleaving; the other ids
\* are plain runs: the client connects, starts the run and it runs to its
\* end, with no control command and no disconnect.
PlainIds == ExecIds \ RunIds

\* The start request of each of the two runs: no breakpoints, not paused.
PairChoice == [bps |-> {}, startPaused |-> FALSE]

PairConnect(id) ==
  /\ \A s \in 1..Len(sinks) : sinks[s].exec # id
  /\ id \in PlainIds => eng[id].phase = "idle"
  /\ Connect(id)

PairCancel(s) ==
  /\ s \in 1..Len(sinks)
  /\ sinks[s].exec \in RunIds
  /\ StreamCancel(s)

NextPair ==
  \/ \E id \in ExecIds : PairConnect(id)
  \/ \E s \in 1..Cardinality(ExecIds) : PairCancel(s)
  \/ \E id \in ExecIds : ExecStart(id, TRUE, PairChoice)
  \/ \E id \in ExecIds : ExecComplete(id)
  \/ \E id \in ExecIds : ExecCatch(id)
  \/ \E id \in RunIds, action \in Actions : Control(id, action)
  \/ \E id \in ExecIds : Engine(id)

SpecPair == Init /\ [][NextPair]_vars

\* The step is an operation performed for the execution id a.
OpFor(a) ==
  \/ PairConnect(a)
  \/ \E s \in 1..Len(sinks) : sinks[s].exec = a /\ PairCancel(s)
  \/ ExecStart(a, TRUE, PairChoice)
  \/ ExecComplete(a)
  \/ ExecCatch(a)
  \/ \E action \in Actions : Control(a, action)
  \/ Engine(a)

\* What the process holds for the execution id b stays as it is.
Untouched(b) ==
  /\ streams'[b] = streams[b]
  /\ (b \in controllers') = (b \in controllers)
  /\ eng'[b] = eng[b]
  /\ \A s \in 1..Len(sinks) : sinks[s].exec = b => sinks'[s] = sinks[s]

C11_Step == \A a \in ExecIds : \A b \in ExecIds \ {a} : OpFor(a) => Untouched(b)

\* C11: every operation performed for one execution id (connect, disconnect,
\* start, hook, control command, terminal cleanup) leaves the stream
\* registration, the controller registration, the engine state and the
\* delivered frames of every other execution id as they were.
C11_DistinctIdsIndependent == [][C11_Step]_vars

C11_Witness ==
  /\ last.route = "control" /\ last.action = "stop" /\ last.http = 200
  /\ \E b \in ExecIds \ {last.id} :
       /\ b \in controllers /\ streams[b] # NoSink
       /\ Len(sinks[streams[b]].frames) >= 3


\* ------------------------------------------------------------------ query routes
\* The engine client (one McpGraphApi instance per process) answers
\* getExecutionByIndex and getContextForExecution without an execution id:
\* it reads the execution it started last.
ApiCurrent ==
  IF Started = 0 THEN "-" ELSE CHOOSE i \in ExecIds : eng[i].seq = Started

\* The sequence ids a context request asks for.
SequenceIds == {0, 1}

\* An answer carrying the records (or the context) of the execution `owner`;
\* an empty or null answer carries data of no execution.
DataOf(owner, present) == IF present /\ owner # "-" THEN owner ELSE "-"

HasContext(i, sequenceId) == i # "-" /\ sequenceId < Len(EngineHistory(eng[i]))

\* GET /api/execution/history: the history of the controller's own state.
HistoryGet(id) ==
  /\ last' = IF ~getController(controllers, id)
               THEN [NoHandler EXCEPT !.route = "history", !.id = id, !.http = 404]
               ELSE [NoHandler EXCEPT !.route = "history", !.id = id, !.http = 200,
                       !.owner = DataOf(id, Len(EngineHistory(eng[id])) > 0)]
  /\ UNCHANGED <<configSet, client, streams, controllers, sinks, eng, log>>

\* GET /api/execution/history-with-indices: the controller is looked up by
\* id, the records are read with api.getExecutionByIndex.
HistoryWithIndicesGet(id) ==
  /\ last' = IF ~getController(controllers, id)
               THEN [NoHandler EXCEPT !.route = "historyIndexed", !.id = id, !.http = 404]
               ELSE IF ~configSet
                 THEN [NoHandler EXCEPT !.route = "historyIndexed", !.id = id, !.http = 500]
                 ELSE [NoHandler EXCEPT !.route = "historyIndexed", !.id = id, !.http = 200,
                         !.owner = DataOf(ApiCurrent,
                                          ApiCurrent # "-"
                                          /\ Len(EngineHistory(eng[ApiCurrent])) > 0)]
  /\ UNCHANGED <<configSet, client, streams, controllers, sinks, eng, log>>

\* GET /api/execution/context: the controller's context when a controller
\* is registered for the id, api.getContextForExecution otherwise.
ContextGet(id, sequenceId) ==
  /\ last' = IF getController(controllers, id)
               THEN [NoHandler EXCEPT !.route = "context", !.id = id, !.http = 200,
                       !.owner = DataOf(id, HasContext(id, sequenceId))]
               ELSE IF ~configSet
                 THEN [NoHandler EXCEPT !.route = "context", !.id = id, !.http = 500]
                 ELSE [NoHandler EXCEPT !.route = "context", !.id = id, !.http = 200,
                         !.owner = DataOf(ApiCurrent, HasContext(ApiCurrent, sequenceId))]
  /\ UNCHANGED <<configSet, client, streams, controllers, sinks, eng, log>>

\* Two executions and the query routes, without streams.
NextQuery ==
  \/ \E id \in ExecIds : ExecStart(id, TRUE, PairChoice)
  \/ \E id \in ExecIds : ExecComplete(id)
  \/ \E id \in ExecIds : ExecCatch(id)
  \/ \E id \in RunIds, action \in Actions : Control(id, action)
  \/ \E id \in ExecIds : Engine(id)
  \/ \E id \in ExecIds : HistoryGet(id)
  \/ \E id \in ExecIds : HistoryWithIndicesGet(id)
  \/ \E id \in ExecIds, sequenceId \in SequenceIds : ContextGet(id, sequenceId)

SpecQuery == Init /\ [][NextQuery]_vars

QueryAnswer == last.route \in {"history", "historyIndexed", "context"} /\ last.http = 200

\* C12: the records of the history routes and the context of the context
\* route answered for an execution id are those of that id's own execution
\* or empty, never those of another execution.
C12_OwnDataOnly == QueryAnswer => last.owner \in {"-", last.id}

\* The history route alone answers from the controller registered for the id.
C12_HistoryOwnData ==
  (QueryAnswer /\ last.route = "history") => last.owner \in {"-", last.id}


\* ------------------------------------------------------------------ graph topology
\* GET /api/graph: the edge list built from the configuration's nodes.
MaxNodes == 2
MaxConds == 2

\* A condition's rule: absent, the JSON Logic literal false, or an object.
Rules == {"absent", "false", "object"}

\* JavaScript truthiness of condition.rule.
Truthy(rule) == rule = "object"

\* JSON.stringify(condition.rule)
Stringify(rule) == IF rule = "object" THEN "{\"var\":\"a\"}" ELSE rule

Conditions == [target : {"t"}, rule : Rules]

CondLists == UNION {[1..n -> Conditions] : n \in 0..MaxConds}

\* node.next: absent ("-"), the empty string, or a node id.
GraphNodes ==
  [type : {"entry"}, next : {"-", "", "x"}, conditions : {<<>>}]
    \cup [type : {"switch"}, next : {"-", "", "x"}, conditions : CondLists]

Configs == UNION {[1..n -> GraphNodes] : n \in 0..MaxNodes}

NodeId(i) == <<"n", i>>

\* 'next' in node && node.next
NextEdge(cfg, i) ==
  IF cfg[i].next # "-" /\ cfg[i].next # ""
    THEN << [source |-> NodeId(i), target |-> cfg[i].next, label |-> "-"] >>
    ELSE << >>

\* node.type === 'switch' && 'conditions' in node
SwitchEdges(cfg, i) ==
  IF cfg[i].type = "switch"
    THEN [k \in 1..Len(cfg[i].conditions) |->
            [source |-> NodeId(i), target |-> cfg[i].conditions[k].target,
             label |-> IF Truthy(cfg[i].conditions[k].rule)
                         THEN Stringify(cfg[i].conditions[k].rule)
                         ELSE "default"]]
    ELSE << >>

\* config.nodes.forEach: the edges of nodes 1..n, in order.
RECURSIVE EdgesUpTo(_, _)
EdgesUpTo(cfg, n) ==
  IF n = 0 THEN << >>
  ELSE EdgesUpTo(cfg, n - 1) \o NextEdge(cfg, n) \o SwitchEdges(cfg, n)

Edges(cfg) == EdgesUpTo(cfg, Len(cfg))

InitGraph ==
  /\ client = IdleClient
  /\ configSet = TRUE
  /\ streams = [id \in ExecIds |-> NoSink]
  /\ controllers = {}
  /\ sinks = <<>>
  /\ eng = [id \in ExecIds |-> IdleEngine]
  /\ log = <<>>
  /\ \E cfg \in Configs :
       last = [route |-> "none", http |-> 0, config |-> cfg, edges |-> <<>>]

\* The request is answered once for the configuration the process loaded.
GraphGet ==
  /\ configSet
  /\ last.route = "none"
  /\ last' = [last EXCEPT !.route = "graph", !.http = 200, !.edges = Edges(last.config)]
  /\ UNCHANGED <<configSet, client, streams, controllers, sinks, eng, log>>

NextGraph == GraphGet

SpecGraph == InitGraph /\ [][NextGraph]_vars

\* The edges the topology transform is to produce for nodes 1..n: one
\* unlabelled edge per next reference, and per switch condition one edge
\* labelled with the serialized rule, or "default" for a condition without rule.
RECURSIVE ExpectedEdgesUpTo(_, _)
ExpectedEdgesUpTo(cfg, n) ==
  IF n = 0 THEN << >>
  ELSE ExpectedEdgesUpTo(cfg, n - 1)
       \o (IF cfg[n].next \notin {"-", ""}
             THEN << [source |-> NodeId(n), target |-> cfg[n].next, label |-> "-"] >>
             ELSE << >>)
       \o [k \in 1..Len(cfg[n].conditions) |->
             [source |-> NodeId(n), target |-> cfg[n].conditions[k].target,
              label |-> IF cfg[n].conditions[k].rule = "absent"
                          THEN "default"
                          ELSE Stringify(cfg[n].conditions[k].rule)]]

\* C13: the edge list of the graph route is exactly one edge per next
\* reference and, per switch node, one edge per condition labelled with the
\* serialized rule of the condition or with "default" when it has no rule.
C13_EdgesExact ==
  last.route = "graph" => last.edges = ExpectedEdgesUpTo(last.config, Len(last.config))

\* The same, for configurations none of whose rules is a falsy literal.
C13_EdgesExactTruthyRules ==
  (/\ last.route = "graph"
   /\ \A i \in 1..Len(last.config) : \A k \in 1..Len(last.config[i].conditions) :
        last.config[i].conditions[k].rule # "false")
    => last.edges = ExpectedEdgesUpTo(last.config, Len(last.config))


\* ------------------------------------------------------------------ telemetry
\* The engine's telemetry maps, their serialization in the execution route
\* and their deserialization on the client.
MaxEntries == 2

TelemetryKeys == {"A", "B", "1"}
TelemetryValues == {0, 3, 7}

\* A Map as its entries in insertion order, keys unique.
Maps ==
  {m \in UNION {[1..n -> [key : TelemetryKeys, value : TelemetryValues]] : n \in 0..MaxEntries} :
     \A i, j \in 1..Len(m) : m[i].key = m[j].key => i = j}

\* An integer-like property name: such properties come first in an object.
IsIndex(k) == k = "1"

\* Variant: a conversion that loses the integer-like keys.
FromEntriesNamedOnly(m) ==
  LET Named(e) == ~IsIndex(e.key) IN SelectSeq(m, Named)

\* Object.fromEntries(map): an object as its properties in property order.
FromEntries(m) ==
  LET Indexed(e) == IsIndex(e.key)
      Named(e) == ~IsIndex(e.key)
  IN SelectSeq(m, Indexed) \o SelectSeq(m, Named)

Digits == <<"0", "1", "2", "3", "4", "5", "6", "7", "8", "9">>

\* JSON text of a number / the number of a JSON text.
NumberText(v) == Digits[v + 1]
ParseNumber(t) == CHOOSE v \in 0..9 : Digits[v + 1] = t

\* JSON.stringify of an object of numbers: its members as name and number text.
JsonStringify(obj) == [i \in 1..Len(obj) |-> <<obj[i].key, NumberText(obj[i].value)>>]

\* JSON.parse on the client.
JsonParse(text) == [i \in 1..Len(text) |-> [key |-> text[i][1], value |-> ParseNumber(text[i][2])]]

\* The object the client holds for a map of the engine.
ClientObject(m) == JsonParse(JsonStringify(FromEntries(m)))

KeySet(obj) == {obj[i].key : i \in 1..Len(obj)}
Lookup(obj, k) == obj[CHOOSE i \in 1..Len(obj) : obj[i].key = k].value

InitTelemetry ==
  /\ client = IdleClient
  /\ configSet = TRUE
  /\ streams = [id \in ExecIds |-> NoSink]
  /\ controllers = {}
  /\ sinks = <<>>
  /\ eng = [id \in ExecIds |-> IdleEngine]
  /\ log = <<>>
  /\ \E durations \in Maps, counts \in Maps :
       last = [route |-> "none", durations |-> durations, counts |-> counts,
               event |-> [nodeDurations |-> <<>>, nodeCounts |-> <<>>],
               response |-> [nodeDurations |-> <<>>, nodeCounts |-> <<>>]]

\* The completion path of the execution route for a result with telemetry:
\* the executionComplete event and the JSON response both carry the maps.
TelemetryComplete ==
  /\ last.route = "none"
  /\ last' = [last EXCEPT
       !.route = "telemetry",
       !.event = [nodeDurations |-> ClientObject(last.durations),
                  nodeCounts |-> ClientObject(last.counts)],
       !.response = [nodeDurations |-> ClientObject(last.durations),
                     nodeCounts |-> ClientObject(last.counts)]]
  /\ UNCHANGED <<configSet, client, streams, controllers, sinks, eng, log>>

NextTelemetry == TelemetryComplete

SpecTelemetry == InitTelemetry /\ [][NextTelemetry]_vars

SameEntries(obj, m) ==
  /\ KeySet(obj) = KeySet(m)
  /\ Len(obj) = Len(m)
  /\ \A k \in KeySet(m) : Lookup(obj, k) = Lookup(m, k)

Answered == last.route \notin {"none", "background"}

\* C15: with the configuration path unset every route answers 500 and the
\* controller and stream registries stay empty.
C15_UnsetConfigAlways500 ==
  ~configSet
    => /\ Answered => last.http = 500
       /\ controllers = {}
       /\ \A id \in ExecIds : streams[id] = NoSink

\* The execution and control routes alone: 500, and the controller registry
\* stays empty.
C15_ExecuteAndControl500 ==
  ~configSet
    => /\ last.route \in {"execute", "control"} => last.http = 500
       /\ controllers = {}

C16_Step ==
  \A id \in ExecIds :
    (last'.route = "control" /\ last'.id = id /\ last'.action = "stop")
      => IF last'.http = 200
           THEN /\ eng[id].status \in {"running", "paused"}
                /\ last'.invoked = "stop"
                /\ last'.emitted = <<"executionStopped">>
                /\ eng'[id].status = "stopped"
                /\ id \notin controllers'
           ELSE /\ last'.invoked = "none" /\ last'.emitted = <<>> /\ ~last'.threw
                /\ eng[id].status = "stopped" => last'.http \in {400, 404}
                /\ UNCHANGED <<streams, controllers, sinks, eng>>

\* A stopped execution stays stopped.
C16_StoppedStays ==
  \A id \in ExecIds : eng[id].status = "stopped" => eng'[id].status = "stopped"

\* C16: of two stop commands for one running or paused execution the first
\* is accepted (stop invoked, one executionStopped emitted) and the second is
\* answered with a 404 or 400 client error, invoking nothing, emitting
\* nothing and changing nothing.
C16_SecondStopRejected == [][C16_Step /\ C16_StoppedStays]_vars

C16_Witness ==
  /\ last.route = "control" /\ last.action = "stop" /\ last.http = 404
  /\ eng[last.id].status = "stopped" /\ eng[last.id].promise = "pending"

TerminalEvents == {"executionComplete", "executionError", "executionStopped"}

\* C17: a connection holds at most one terminal frame and no frame after it.
C17_TerminalFrameIsLast ==
  \A s \in SinkIds :
    \A i \in 1..Len(sinks[s].frames) :
      sinks[s].frames[i].event \in TerminalEvents => i = Len(sinks[s].frames)

C17_Witness ==
  /\ last.route = "execute" /\ last.action = "catch"
  /\ last.emitted = <<"executionStopped">>
  /\ \E s \in SinkIds :
       /\ sinks[s].exec = last.id /\ sinks[s].state = "closed"
       /\ sinks[s].frames[Len(sinks[s].frames)].event = "executionStopped"
       /\ streams[last.id] = NoSink
       /\ StoppedFrames(last.id) = 1

\* The execution of id has reached a terminal outcome and the execution
\* route has handled it.
Terminated(id) == eng[id].promise = "handled"

\* C18: in every reachable state neither registry holds an entry for an
\* execution id whose execution has reached a terminal outcome.
C18_NoEntryAfterTerminal ==
  \A id \in ExecIds :
    Terminated(id) => (streams[id] = NoSink /\ id \notin controllers)

\* The controller registry alone holds no entry of a terminated execution.
C18_NoControllerAfterTerminal ==
  \A id \in ExecIds : Terminated(id) => id \notin controllers

C19_Step ==
  \A s \in SinkIds :
    (/\ sinks[s].state = "open" /\ sinks'[s].state = "cancelled"
     /\ streams[sinks[s].exec] # s)
      => streams'[sinks[s].exec] = streams[sinks[s].exec]

\* C19: cancelling a connection whose registration was superseded by a later
\* registration of the same id leaves the later registration in place.
C19_CancelKeepsLaterRegistration == [][C19_Step]_vars

C20_Step ==
  (last'.route = "send" /\ streams[last'.id] = NoSink)
    => /\ ~last'.threw /\ ~last'.failed
       /\ UNCHANGED <<streams, controllers, sinks, log>>

\* A connection just registered holds its connected frame and nothing else.
C20_FreshStream ==
  Len(sinks') = Len(sinks) + 1
    => sinks'[Len(sinks')].frames = <<ConnectedFrame(sinks'[Len(sinks')].exec)>>

\* C20: an event sent for an id without a registered stream is discarded: the
\* call raises nothing, changes neither registry and no connection, and a
\* stream registered later for the id starts with its connected frame alone.
C20_UnregisteredSendDiscarded == [][C20_Step /\ C20_FreshStream]_vars

C20_Witness ==
  /\ last.route = "send" /\ ~last.failed /\ last.emitted # <<>>
  /\ streams[last.id] = NoSink
  /\ \E s \in SinkIds : sinks[s].exec = last.id /\ sinks[s].state = "closed"
  /\ \E o \in ExecIds \ {last.id} : streams[o] # NoSink /\ o \in controllers


\* ------------------------------------------------------------------ state notifications
\* C21: every pause frame on a connection is directly followed, on the same
\* connection, by a stateUpdate frame with status paused and the pause
\* frame's node as currentNodeId.
C21_PauseThenStateUpdate ==
  \A s \in SinkIds :
    \A i \in 1..Len(sinks[s].frames) :
      sinks[s].frames[i].event = "pause"
        => /\ i < Len(sinks[s].frames)
           /\ sinks[s].frames[i + 1] = StateUpdateFrame("paused", sinks[s].frames[i].nodeId)

\* One connection holds two pause frames, for two nodes, and frames after
\* the second stateUpdate.
C21_Witness ==
  \E s \in SinkIds :
    \E i, j \in 1..Len(sinks[s].frames) :
      /\ i < j /\ j + 1 < Len(sinks[s].frames)
      /\ sinks[s].frames[i].event = "pause" /\ sinks[s].frames[j].event = "pause"
      /\ sinks[s].frames[i].nodeId # sinks[s].frames[j].nodeId

C22_Step ==
  /\ last'.route = "control"
       => /\ \A i \in 1..Len(last'.emitted) : last'.emitted[i] # "stateUpdate"
          /\ last'.action \in {"pause", "resume", "step"}
               => last'.emitted = <<>> /\ UNCHANGED <<streams, sinks, log>>
  /\ \A s \in SinkIds :
       Count(sinks'[s].frames, "stateUpdate") > Count(sinks[s].frames, "stateUpdate")
         => /\ last'.route = "background"
            /\ Count(sinks'[s].frames, "stateUpdate") = Count(sinks[s].frames, "stateUpdate") + 1
            /\ Count(sinks'[s].frames, "pause") = Count(sinks[s].frames, "pause") + 1
            /\ eng[sinks[s].exec].phase = "boundary"
            /\ eng'[sinks[s].exec].phase = "waiting"

C22_OnePerPause ==
  \A s \in SinkIds : Count(sinks[s].frames, "stateUpdate") = Count(sinks[s].frames, "pause")

\* C22: the control route never emits a stateUpdate, and emits nothing at
\* all for pause, resume and step; a stateUpdate frame is added to a
\* connection only by the executor's pause hook, one per pause.
C22_ControlNeverNotifies == []C22_OnePerPause /\ [][C22_Step]_vars

\* A resume or a step is accepted for an execution whose connection already
\* holds a stateUpdate.
C22_Witness ==
  /\ last.route = "control" /\ last.action \in {"resume", "step"} /\ last.http = 200
  /\ streams[last.id] # NoSink
  /\ Count(sinks[streams[last.id]].frames, "stateUpdate") = 1

\* ------------------------------------------------------------------ page
\* The page: ToolTester (handleSubmit and the stream event switch), the
\* DebugControls buttons and the breakpoint set the page holds.  A step is
\* either a handler of the page or a handler of the server.
\* The nodes of the graph the user clicks to toggle a breakpoint.
ToggleNodes == {"B"}

\* What one event does to executionHistory.  The pause case looks for an
\* existing record in the executionHistory of the render handleSubmit was
\* called in.
OnHistory(c, id, f) ==
  IF f.event = "pause" /\ HasRecord(c.cap[id].history, f.nodeId, f.idx)
    THEN c.history
    ELSE HandleEvent(c.history, f)

\* The stream event switch of the run `id`.
OnEvent(c, id, f) ==
  LET h == OnHistory(c, id, f) IN
  CASE f.event = "nodeStart" ->
         [c EXCEPT !.currentNodeId = f.nodeId, !.history = h]
    [] f.event \in {"nodeComplete", "nodeError"} ->
         [c EXCEPT !.history = h]
    [] f.event = "executionComplete" ->
         [c EXCEPT !.history = h, !.status = "finished", !.currentNodeId = "-",
                   !.loading = FALSE, !.open[id] = FALSE, !.ref = "-"]
    [] f.event = "executionError" ->
         [c EXCEPT !.status = "error", !.currentNodeId = "-", !.loading = FALSE,
                   !.open[id] = FALSE, !.ref = "-", !.execId = "-"]
    [] f.event = "executionStopped" ->
         [c EXCEPT !.status = "stopped", !.currentNodeId = "-", !.loading = FALSE,
                   !.open[id] = FALSE, !.ref = "-", !.execId = "-"]
    [] f.event = "pause" ->
         [c EXCEPT !.status = "paused", !.currentNodeId = f.nodeId, !.history = h,
                   !.fetch = IF c.cap[id].execId # "-" THEN c.cap[id].execId ELSE @]
    [] f.event = "stateUpdate" ->
         [c EXCEPT !.status = f.status, !.currentNodeId = f.nodeId]
    [] OTHER -> c

\* SSEExecutionStream: an event reaches the callback when a listener is
\* registered for its type.
Dispatch(c, id, f) == IF f.event \in ClientListens THEN OnEvent(c, id, f) ELSE c

\* DebugControls: the Run button.
RunEnabled(c) == c.status \notin {"running", "paused"}

\* DebugControls: the Step button starts a run unless the status is paused.
StepFromStartEnabled(c) == c.status \in {"not_started", "finished", "error", "stopped"}

\* DebugControls: the Pause, Resume, Step and Stop buttons.
ButtonEnabled(c, action) ==
  /\ c.execId # "-"
  /\ CASE action = "pause"  -> c.status = "running"
       [] action = "resume" -> c.status = "paused"
       [] action = "step"   -> c.status = "paused"
       [] action = "stop"   -> c.status \in {"running", "paused"}

\* The frames of a connection that wait to be handled: the server takes a
\* step while fewer than MaxUnread frames wait on every connection the page
\* reads.
MaxUnread == 1

Unread(s) == IF client.open[sinks[s].exec] THEN Len(sinks[s].frames) - client.read[s] ELSE 0

ServerTurn == \A s \in 1..Len(sinks) : Unread(s) < MaxUnread

\* A step of the page alone.
PageStep(c) ==
  /\ client' = c
  /\ last' = BackgroundStep
  /\ UNCHANGED <<configSet, streams, controllers, sinks, eng, log>>

\* handleSubmit up to waitForSSE: Run, Step from start, or the form's button.
ClientSubmit(startPaused) ==
  LET c == client
      id == RunOrder[c.runs + 1]
  IN
  /\ c.runs < Len(RunOrder)
  /\ IF startPaused THEN StepFromStartEnabled(c) ELSE (RunEnabled(c) \/ ~c.loading)
  /\ PageStep([c EXCEPT !.loading = TRUE, !.history = <<>>, !.status = "not_started",
                        !.currentNodeId = "-", !.execId = id, !.runs = @ + 1,
                        !.open[id] = TRUE, !.ref = id, !.post[id] = "waiting",
                        !.cap[id] = [execId |-> c.execId, history |-> c.history,
                                     bps |-> c.bps, startPaused |-> startPaused]])

\* The EventSource of a run connects, or reconnects after the server ended
\* its connection and what that connection carried was handled.
ClientStreamGet(id) ==
  /\ client.open[id]
  /\ \A s \in 1..Len(sinks) :
       sinks[s].exec = id => client.read[s] = Len(sinks[s].frames)
  /\ StreamGet(id)

\* stream.disconnect() reaches the server: ReadableStream.cancel.
ClientGone(s) ==
  /\ s \in 1..Len(sinks)
  /\ ~client.open[sinks[s].exec]
  /\ StreamCancel(s)

\* The next frame of a connection reaches the EventSource.
ClientHandle(s) ==
  /\ s \in 1..Len(sinks)
  /\ client.open[sinks[s].exec]
  /\ client.read[s] < Len(sinks[s].frames)
  /\ PageStep([Dispatch(client, sinks[s].exec, sinks[s].frames[client.read[s] + 1])
                 EXCEPT !.read[s] = @ + 1])

\* handleSubmit after waitForSSE (the connected event or the 2 s timer):
\* the start request is sent.
ClientPost(id) ==
  /\ client.post[id] = "waiting"
  /\ PageStep([client EXCEPT !.post[id] = "sent"])

\* The start request reaches the execution route.
ClientExecStart(id) ==
  /\ ServerTurn
  /\ client.post[id] = "sent"
  /\ \E toolKnown \in BOOLEAN :
       ExecStart(id, toolKnown, [bps |-> client.cap[id].bps,
                                 startPaused |-> client.cap[id].startPaused])

\* The execution route answered with an error body.
PostFailed(id) == ~configSet \/ eng[id].status \in {"none", "error"}

\* A handleSubmit that shows a failed start request as the status error.
ClientPostAnswerSetsError(id) ==
  /\ client.post[id] = "sent"
  /\ ~configSet \/ eng[id].promise = "handled"
  /\ PageStep(IF PostFailed(id)
                THEN [client EXCEPT !.post[id] = "answered", !.loading = FALSE,
                                    !.open[id] = FALSE, !.ref = "-",
                                    !.status = "error"]
                ELSE [client EXCEPT !.post[id] = "answered"])

\* handleSubmit after the start request was answered.
ClientPostAnswer(id) ==
  /\ client.post[id] = "sent"
  /\ ~configSet \/ eng[id].promise = "handled"
  /\ PageStep(IF PostFailed(id)
                THEN [client EXCEPT !.post[id] = "answered", !.loading = FALSE,
                                    !.open[id] = FALSE, !.ref = "-"]
                ELSE [client EXCEPT !.post[id] = "answered"])

\* A click on Pause, Resume, Step or Stop: the control request.
ClientControl(action) ==
  /\ ServerTurn
  /\ ButtonEnabled(client, action)
  /\ Control(client.execId, action)

\* fetchExecutionHistory: the answer of the history-with-indices route
\* replaces executionHistory.
ClientHistoryFetched ==
  LET id == client.fetch
      found == getController(controllers, id) /\ configSet
      names == IF ApiCurrent = "-" THEN <<>> ELSE EngineHistory(eng[ApiCurrent])
  IN
  /\ id # "-"
  /\ PageStep(IF found
                THEN [client EXCEPT !.fetch = "-",
                        !.history = [i \in 1..Len(names) |->
                                       [nodeId |-> names[i], idx |-> i - 1]]]
                ELSE [client EXCEPT !.fetch = "-"])

\* onToggleBreakpoint of the page.
Toggle(bps, n) == IF n \in bps THEN bps \ {n} ELSE bps \cup {n}

ClientToggle(n) ==
  /\ n \in ToggleNodes
  /\ PageStep([client EXCEPT !.bps = Toggle(@, n)])

\* handleClear.
ClientClear ==
  LET c == client IN
  /\ c # [IdleClient EXCEPT !.runs = c.runs, !.open = c.open, !.read = c.read,
                            !.post = c.post, !.cap = c.cap, !.fetch = c.fetch]
  /\ PageStep([c EXCEPT !.loading = FALSE, !.history = <<>>, !.status = "not_started",
                        !.currentNodeId = "-", !.execId = "-", !.bps = {},
                        !.open = IF c.ref = "-" THEN @ ELSE [@ EXCEPT ![c.ref] = FALSE],
                        !.ref = "-"])

\* The server's side of a run: the executor and the execution route's
\* completion and catch paths.
PageServer(id) ==
  /\ ServerTurn
  /\ \/ ExecComplete(id)
     \/ ExecCatch(id)
     \/ Engine(id)

\* One run of one page.
FirstSubmit(startPaused) == client.runs = 0 /\ ClientSubmit(startPaused)

NextClient ==
  \/ \E startPaused \in BOOLEAN : FirstSubmit(startPaused)
  \/ \E id \in ExecIds : ClientStreamGet(id)
  \/ \E s \in 1..MaxSinks : ClientGone(s)
  \/ \E s \in 1..MaxSinks : ClientHandle(s)
  \/ \E id \in ExecIds : ClientPost(id)
  \/ \E id \in ExecIds : ClientExecStart(id)
  \/ \E id \in ExecIds : ClientPostAnswer(id)
  \/ \E action \in Actions : ClientControl(action)
  \/ \E n \in ToggleNodes : ClientToggle(n)
  \/ ClientClear
  \/ \E id \in ExecIds : PageServer(id)

SpecClient == Init /\ [][NextClient]_vars

\* A second run of the page.
SecondSubmit(startPaused) == client.runs = 1 /\ ClientSubmit(startPaused)

\* The connected event of the run's stream was handled before the timer ran out.
PostWhenConnected(id) ==
  /\ \E s \in 1..Len(sinks) : sinks[s].exec = id /\ client.read[s] >= 1
  /\ ClientPost(id)

\* Two runs of one page, the first started with Run, no breakpoint toggled,
\* each stream connected before its start request is sent.
NextRuns ==
  \/ FirstSubmit(FALSE)
  \/ \E startPaused \in BOOLEAN : SecondSubmit(startPaused)
  \/ \E id \in ExecIds : ClientStreamGet(id)
  \/ \E s \in 1..MaxSinks : ClientGone(s)
  \/ \E s \in 1..MaxSinks : ClientHandle(s)
  \/ \E id \in ExecIds : PostWhenConnected(id)
  \/ \E id \in ExecIds : ClientExecStart(id)
  \/ \E id \in ExecIds : ClientPostAnswer(id)
  \/ \E action \in Actions : ClientControl(action)
  \/ ClientHistoryFetched
  \/ ClientClear
  \/ \E id \in ExecIds : PageServer(id)

SpecRuns == Init /\ [][NextRuns]_vars

\* ------------------------------------------------------------------ page properties
\* The page handles the frames that reach it, and the server and the engine
\* keep running.
SpecClientLive ==
  /\ SpecClient
  /\ WF_vars(\E s \in 1..MaxSinks : ClientHandle(s))
  /\ WF_vars(\E id \in ExecIds : PageServer(id))
  /\ WF_vars(\E id \in ExecIds : ClientStreamGet(id))

\* The control route accepted a stop for the page's current execution.
StopAcceptedForPage ==
  /\ last.route = "control" /\ last.action = "stop" /\ last.http = 200
  /\ last.id = client.execId

\* The page handled the executionStopped event of a run.
StoppedHandled ==
  /\ client.status = "stopped" /\ ~client.loading /\ client.currentNodeId = "-"
  /\ \A id \in ExecIds : ~client.open[id]

\* The user cleared the execution.
PageCleared == client.execId = "-" /\ client.status = "not_started"

\* C23: after the server accepted a stop for the page's current execution
\* the page eventually handles executionStopped: its status is stopped, its
\* loading flag and current node are cleared and its stream is disconnected
\* (unless the user cleared the execution in the meantime).
C23_StopLeadsToStopped == StopAcceptedForPage ~> (StoppedHandled \/ PageCleared)

\* No state of the page has the status stopped.
C23_NeverStopped == client.status # "stopped"

\* A stop was accepted and the executionStopped frame reached the page's connection.
C23_StopFrameReachedPage ==
  \E s \in 1..Len(sinks) :
    /\ client.open[sinks[s].exec] /\ sinks[s].exec = client.execId
    /\ client.read[s] = Len(sinks[s].frames) /\ client.read[s] > 0
    /\ sinks[s].frames[client.read[s]].event = "executionStopped"

\* The connection the page last handled a frame of for its current execution,
\* and that frame.
LatestConn(s) ==
  /\ sinks[s].exec = client.execId /\ client.open[sinks[s].exec]
  /\ 0 < client.read[s] /\ client.read[s] <= Len(sinks[s].frames)
  /\ \A t \in 1..Len(sinks) :
       (t > s /\ sinks[t].exec = client.execId) => client.read[t] = 0

LatestEvent(s) == sinks[s].frames[client.read[s]].event

\* C24: whenever the latest event the page handled for its current execution
\* is nodeStart, nodeComplete or resume, the page's status is running.
C24_RunningWhileExecuting ==
  \A s \in 1..Len(sinks) :
    (LatestConn(s) /\ LatestEvent(s) \in {"nodeStart", "nodeComplete", "resume"})
      => client.status = "running"

\* No state of the page has the status running.
C24_NeverRunning == client.status # "running"

\* The page handled a resume event and its status is still paused.
C24_ResumedStillPaused ==
  \E s \in 1..Len(sinks) :
    LatestConn(s) /\ LatestEvent(s) = "resume" /\ client.status = "paused"

\* ExecutionStatus.
ExecutionStatuses == {"not_started", "running", "paused", "finished", "error", "stopped"}

\* A step in which the page handled one frame of the connection s.
Handled(s) == client'.read[s] = client.read[s] + 1

C25_Step ==
  /\ client'.status \in ExecutionStatuses
  /\ client'.status # client.status =>
       \/ \E s \in 1..MaxSinks : Handled(s) /\ client.open[sinks[s].exec]
       \/ client'.runs = client.runs + 1 /\ client'.status = "not_started"
       \/ /\ client'.execId = "-" /\ client'.status = "not_started"
          /\ client'.runs = client.runs /\ client'.read = client.read
  /\ last'.route = "control" => client' = client

C26_OneRecordPerInvocation ==
  \A i, j \in 1..Len(client.history) :
    (client.history[i].nodeId = client.history[j].nodeId
       /\ client.history[i].idx = client.history[j].idx) => i = j

\* The page handled the nodeStart and the nodeError of one invocation on one
\* connection and holds two records of it.
C26_ErrorRecordTwice ==
  \E s \in 1..Len(sinks) :
    /\ LatestConn(s) /\ LatestEvent(s) = "nodeError"
    /\ client.read[s] > 1 /\ sinks[s].frames[client.read[s] - 1].event = "nodeStart"
    /\ ~C26_OneRecordPerInvocation

\* C29: the page's breakpoint set changes only by the toggle of one node.
C29_OnlyToggleChangesBreakpoints ==
  [][client'.bps # client.bps =>
       \E n \in ToggleNodes : client' = [client EXCEPT !.bps = Toggle(@, n)]]_vars

\* Two toggles of one node restore the set.
C29_ToggleTwice ==
  \A n \in ToggleNodes : Toggle(Toggle(client.bps, n), n) = client.bps

\* The page's eight handlers other than the toggle and the clear leave the
\* breakpoint set alone.
C29_OnlyToggleOrClear ==
  [][client'.bps # client.bps =>
       \/ \E n \in ToggleNodes : client' = [client EXCEPT !.bps = Toggle(@, n)]
       \/ client'.bps = {} /\ client'.execId = "-" /\ client'.status = "not_started"]_vars

\* C30: while the page's current execution has a controller, the breakpoint
\* set of that execution's engine equals the page's breakpoint set.
C30_EngineMirrorsBreakpoints ==
  (client.execId # "-" /\ getController(controllers, client.execId))
    => eng[client.execId].bps = client.bps

\* The set a start request carried is the page's set when the run was submitted.
C30_SentSetIsSubmitSet ==
  \A id \in ExecIds :
    (client.post[id] = "answered" /\ configSet /\ eng[id].status # "none")
      => eng[id].bps = client.cap[id].bps

\* The breakpoint set of a running engine never changes.
C30_EngineSetFixed ==
  [][\A id \in ExecIds :
       eng[id].status # "none" /\ eng'[id].status # "none" => eng'[id].bps = eng[id].bps]_vars

\* The engine-supplied history an executionComplete frame carries, as records.
Supplied(f) == HandleEvent(<<>>, f)

\* A step that clears the execution.
ClearStep ==
  /\ client'.runs = client.runs /\ client'.read = client.read
  /\ client'.status = "not_started" /\ client'.history = <<>>

C27_Step ==
  /\ \A s \in 1..MaxSinks :
       (/\ s <= Len(sinks) /\ Handled(s) /\ client.open[sinks[s].exec]
        /\ sinks[s].frames[client.read[s] + 1].event = "executionComplete")
         => client'.history = Supplied(sinks[s].frames[client.read[s] + 1])
  /\ (/\ client.status = "finished" /\ client.execId # "-"
      /\ ~client.open[client.execId]
      /\ client'.runs = client.runs /\ ~ClearStep)
       => client'.history = client.history

\* C27: handling executionComplete makes the page's history the
\* engine-supplied history, and once the page's current run has finished the
\* history stays as it is until the next run is submitted (or the user
\* clears the execution).
C27_HistoryReconciled == [][C27_Step]_vars

\* The page shows a finished run and holds a record the engine's history of
\* that run does not.
C27_FinishedWithForeignRecord ==
  /\ client.status = "finished" /\ client.execId # "-"
  /\ eng[client.execId].status = "finished"
  /\ \E i \in 1..Len(client.history) :
       client.history[i].idx + 1 > Len(EngineHistory(eng[client.execId]))
         \/ \E j \in 1..Len(client.history) :
              j # i /\ client.history[j] = client.history[i]

\* The runs whose stream the page has open.
OpenRuns == {id \in ExecIds : client.open[id]}

\* C28: the page never has two open streams feeding its state.
C28_OneOpenStream == Cardinality(OpenRuns) <= 1

\* A run is submitted only when no run is in flight.
C28_NoSubmitInFlight ==
  [][client'.runs = client.runs + 1 => (OpenRuns = {} /\ ~client.loading)]_vars

\* An event of the first run changed the page's state after the second run
\* was submitted.
C28_OldStreamFeedsState ==
  /\ client.execId = "e2" /\ client.open["e1"]
  /\ client.currentNodeId # "-"
  /\ \E s \in 1..Len(sinks) :
       /\ sinks[s].exec = "e1" /\ 0 < client.read[s]
       /\ client.read[s] <= Len(sinks[s].frames)
       /\ sinks[s].frames[client.read[s]].event = "nodeStart"
  /\ \A s \in 1..Len(sinks) : sinks[s].exec = "e2" => client.read[s] <= 1

====
